---- MODULE Spec2Model ----
(***************************************************************************)
(* A model of pycalendar.py: generate_pdf (the page driver),              *)
(* add_calendar_page (the grid layout), draw_cell (the cell renderer),    *)
(* generate_colours and the save_state context manager.                   *)
(*                                                                         *)
(* Lengths are exact: a length of p points is the integer p * Unit, and   *)
(* Unit is chosen so that every division the layout performs (/50, /400,  *)
(* /7, /8, /2, /200) is exact.  Hues are exact rationals n/d.             *)
(***************************************************************************)
EXTENDS Integers, Sequences, FiniteSets, TLC

VARIABLES
    year_date,      \* generate_pdf argument: the anchor year
    size,           \* generate_pdf argument: <<width, height>> in points
    hue,            \* generate_pdf argument: a Python value (see PyScalar, PySeq)
    first_weekday,  \* generate_pdf argument
    USE_ORDINALS,   \* the module-level toggle
    pc,             \* position of the run of generate_pdf
    month,          \* loop variable of generate_pdf, 0..11
    month_hue,      \* local of generate_pdf
    month_colours,  \* local of generate_pdf
    error,          \* the exception that left generate_pdf, "" when none
    created,        \* file names of the Canvas objects created so far, in order
    saved,          \* file names of the documents saved so far, in order
    cal,            \* add_calendar_page: the month matrix
    phase,          \* add_calendar_page: which loop is running
    row,            \* add_calendar_page: loop variable
    col,            \* add_calendar_page: loop variable
    lastRow,        \* add_calendar_page: local
    gstate,         \* canvas: current graphics state (font, fill colour)
    stack,          \* canvas: graphics states pushed by saveState
    calls,          \* cell_cb invocations on the current canvas, in order
    ops             \* drawing primitives issued on the current canvas, in order

vars == <<year_date, size, hue, first_weekday, USE_ORDINALS, pc, month,
          month_hue, month_colours, error, created, saved, cal, phase, row,
          col, lastRow, gstate, stack, calls, ops>>

(***************************************************************************)
(* Bounds of the model                                                     *)
(***************************************************************************)
FirstYear == 2020
MaxYear == 2021
MaxHueLen == 13

(***************************************************************************)
(* Program constants                                                       *)
(***************************************************************************)
MONDAY == 0
SUNDAY == 6
rows == 8
NumMonths == 12

DAY_NAMES == <<"M", "T", "W", "T", "F", "S", "S">>

month_name == <<"January", "February", "March", "April", "May", "June", "July",
                "August", "September", "October", "November", "December">>

Unit == 50 * 400 * 7 * 8 * 2

Min(a, b) == IF a <= b THEN a ELSE b

(***************************************************************************)
(* Python values                                                           *)
(***************************************************************************)
RECURSIVE Gcd(_, _)
Gcd(a, b) == IF b = 0 THEN a ELSE Gcd(b, a % b)

\* a number n/d in lowest terms
Num(n, d) == LET g == Gcd(n, d) IN [ty |-> "num", n |-> n \div g, d |-> d \div g]

None == [ty |-> "none", n |-> 0, d |-> 1]

\* a Python object that is not a sized container (a float, an int, None)
PyScalar(e) == [ty |-> "scalar", elems |-> <<e>>]

\* a sized container: ty is "list" or "ndarray"
PySeq(ty, elems) == [ty |-> ty, elems |-> elems]

Digits == <<"0", "1", "2", "3", "4", "5", "6", "7", "8", "9">>

\* str(n) for an int n >= 0
RECURSIVE str(_)
str(n) == IF n < 10 THEN Digits[n + 1] ELSE str(n \div 10) \o Digits[(n % 10) + 1]

\* a label handed to the cell callback: a str or an int
StrLabel(s) == [ty |-> "str", s |-> s, i |-> 0]
IntLabel(i) == [ty |-> "int", s |-> "", i |-> i]

\* Python truthiness of a label: "" and 0 are falsy
Truthy(label) == IF label.ty = "str" THEN label.s # "" ELSE label.i # 0

\* str(day) in draw_cell
LabelText(label) == IF label.ty = "str" THEN label.s ELSE str(label.i)

\* len(x): TypeError for an object without __len__
PyLen(v) ==
    IF v.ty \in {"list", "ndarray"}
    THEN [err |-> "", val |-> Len(v.elems)]
    ELSE [err |-> "TypeError", val |-> 0]

\* the outcome of `if x > 1`: "yes", "no" or the exception raised
GreaterThanOne(v) ==
    CASE v.ty = "scalar" ->
            IF v.elems[1].ty = "num"
            THEN (IF v.elems[1].n > v.elems[1].d THEN "yes" ELSE "no")
            ELSE "TypeError"
      [] v.ty = "list" -> "TypeError"
      [] v.ty = "ndarray" ->
            IF Len(v.elems) = 1
            THEN (IF v.elems[1].n > v.elems[1].d THEN "yes" ELSE "no")
            ELSE "ValueError"

\* x / 360 for a number or an ndarray of numbers
Div360(v) ==
    [ty |-> v.ty, elems |-> [k \in DOMAIN v.elems |-> Num(v.elems[k].n, v.elems[k].d * 360)]]

(***************************************************************************)
(* The calendar collaborator: calendar.monthcalendar                       *)
(***************************************************************************)
IsLeap(y) == (y % 4 = 0) /\ ((y % 100 # 0) \/ (y % 400 = 0))

DaysInMonth(y, m) ==
    IF m = 2 THEN (IF IsLeap(y) THEN 29 ELSE 28)
    ELSE IF m \in {4, 6, 9, 11} THEN 30 ELSE 31

RECURSIVE DaysBeforeMonth(_, _)
DaysBeforeMonth(y, m) ==
    IF m = 1 THEN 0 ELSE DaysBeforeMonth(y, m - 1) + DaysInMonth(y, m - 1)

\* proleptic Gregorian ordinal, day 1 = 0001-01-01 (a Monday)
ToOrdinal(y, m, d) ==
    365 * (y - 1) + ((y - 1) \div 4) - ((y - 1) \div 100) + ((y - 1) \div 400)
        + DaysBeforeMonth(y, m) + d

\* Monday = 0 .. Sunday = 6
Weekday(y, m, d) == (ToOrdinal(y, m, d) + 6) % 7

\* weeks of 7 day numbers, 0 outside the month; m is 1..12
MonthCalendar(y, m, fwd) ==
    LET lead == (Weekday(y, m, 1) - fwd) % 7
        n == DaysInMonth(y, m)
        nweeks == (lead + n + 6) \div 7
    IN [r \in 1..nweeks |->
           [c \in 1..7 |->
               LET k == (r - 1) * 7 + c - lead
               IN IF k >= 1 /\ k <= n THEN k ELSE 0]]

(***************************************************************************)
(* generate_colours                                                        *)
(***************************************************************************)
\* colorsys.hls_to_rgb is a pure function of its three arguments; a colour is
\* identified by them (lightness and saturation in hundredths)
hls_to_rgb(h, l, s) == [h |-> h, l |-> l, s |-> s]

generate_colours(h) ==
    [cellBackground  |-> hls_to_rgb(h, 90, 100),
     cellText        |-> hls_to_rgb(h, 15, 100),
     titleBackground |-> hls_to_rgb(h, 15, 100),
     titleText       |-> hls_to_rgb(h, 90, 100)]

(***************************************************************************)
(* generate_pdf: hue resolution, normalisation, file name, page rectangle  *)
(***************************************************************************)
\* ResolveHue with the length test written as "at least 12"
ResolveHue_AtLeast12(h, m) ==
    LET l == PyLen(h)
    IN IF l.err # "" THEN [err |-> l.err, val |-> h]
       ELSE IF l.val >= NumMonths THEN [err |-> "", val |-> PyScalar(h.elems[m + 1])]
       ELSE IF l.val = 1 THEN [err |-> "", val |-> h]
       ELSE [err |-> "ValueError", val |-> h]

\* lines 289-294: [err, val]; err is the exception raised, "" when none
ResolveHue(h, m) ==
    LET l == PyLen(h)
    IN IF l.err # "" THEN [err |-> l.err, val |-> h]
       ELSE IF l.val = NumMonths THEN [err |-> "", val |-> PyScalar(h.elems[m + 1])]
       ELSE IF l.val = 1 THEN [err |-> "", val |-> h]
       ELSE [err |-> "ValueError", val |-> h]

\* NormaliseHue with the degree test written as "at least 1"
NormaliseHue_FromOne(v) ==
    LET g == GreaterThanOne(v)
    IN IF g = "yes" \/ (g = "no" /\ v.elems[1] = Num(1, 1))
       THEN [err |-> "", val |-> Div360(v)]
       ELSE IF g = "no" THEN [err |-> "", val |-> v]
       ELSE [err |-> g, val |-> v]

\* lines 296-297
NormaliseHue(v) ==
    LET g == GreaterThanOne(v)
    IN IF g = "yes" THEN [err |-> "", val |-> Div360(v)]
       ELSE IF g = "no" THEN [err |-> "", val |-> v]
       ELSE [err |-> g, val |-> v]

\* lines 289-297 together
MonthHue(h, m) ==
    LET r == ResolveHue(h, m)
    IN IF r.err # "" THEN r ELSE NormaliseHue(r.val)

\* FileName with the loop index used as the month number
FileName_ZeroBased(y, m) == "cal-" \o str(y) \o "-" \o str(m) \o ".pdf"

\* line 301
FileName(y, m) == "cal-" \o str(y) \o "-" \o str(m + 1) \o ".pdf"

\* line 280
PageSize(sz) == [width |-> sz[1] * Unit, height |-> sz[2] * Unit]

\* lines 283-284 and 308: the rectangle handed to add_calendar_page
PageRect(sz) ==
    LET ps == PageSize(sz)
        wmar == ps.width \div 50
        hmar == ps.height \div 50
    IN [x |-> wmar, y |-> hmar,
        width |-> ps.width - (2 * wmar), height |-> ps.height - (2 * hmar)]

\* OnException with the loop body wrapped in try/except: continue
OnException_Continue(m) ==
    [pc |-> IF m + 1 < NumMonths THEN "resolve" ELSE "done", month |-> m + 1]

\* what happens to the loop of generate_pdf when its body raises in month m:
\* nothing catches the exception, so the loop is abandoned
OnException(m) == [pc |-> "raised", month |-> m]

(***************************************************************************)
(* add_calendar_page: layout                                               *)
(***************************************************************************)
\* line 101
ScaleFactor(rect) == Min(rect.width, rect.height)

\* line 102: scale_factor * 0.0025
LineWidth(rect) == ScaleFactor(rect) \div 400

\* lines 106-113
InsetRect(rect) ==
    LET lw == LineWidth(rect)
    IN [x |-> rect.x + lw, y |-> rect.y + lw,
        width |-> rect.width - (lw * 2), height |-> rect.height - (lw * 2)]

\* line 114, of the inset rectangle
CellSize(inset) == [width |-> inset.width \div 7, height |-> inset.height \div rows]

\* lines 117-119: Font(name, size, pad, bold); k/200 is 0.060, 0.050, 0.090
Font(name, sf, k, pad, bold) ==
    [name |-> name, size |-> (sf \div 200) * k, pad |-> pad, bold |-> bold]

monthFont(sf) == Font("Helvetica", sf, 12, 5, TRUE)
dayFont(sf) == Font("Helvetica", sf, 10, 4, TRUE)
mainFont(sf) == Font("Helvetica", sf, 18, 7, TRUE)

Geom(x, y, width, height, bg, fg) ==
    [x |-> x, y |-> y, width |-> width, height |-> height, bg |-> bg, col |-> fg]

\* lines 133-140
TitleGeom(inset, colours) ==
    LET cs == CellSize(inset)
    IN Geom(inset.x, inset.y + (rows * cs.height), cs.width * 7, cs.height,
            colours.titleBackground, colours.titleText)

\* lines 152-159
HeaderGeom(inset, colours, c) ==
    LET cs == CellSize(inset)
    IN Geom(inset.x + (cs.width * c), inset.y + ((rows - 1) * cs.height),
            cs.width, cs.height, colours.cellBackground, colours.cellText)

\* DayGeom with the week rows starting one row too high
DayGeom_OneRowUp(inset, colours, r, c) ==
    LET cs == CellSize(inset)
    IN Geom(inset.x + (cs.width * c), inset.y + ((rows - r - 1) * cs.height),
            cs.width, cs.height, colours.cellBackground, colours.cellText)

\* lines 173-180 (week rows) and 193-200 (the blank row, r = 5)
DayGeom(inset, colours, r, c) ==
    LET cs == CellSize(inset)
    IN Geom(inset.x + (cs.width * c), inset.y + ((rows - r - 2) * cs.height),
            cs.width, cs.height, colours.cellBackground, colours.cellText)

(***************************************************************************)
(* draw_cell                                                               *)
(***************************************************************************)
RectOp(call, g, rect) ==
    [op |-> "rect", call |-> call, x |-> rect.x, y |-> rect.y - rect.height,
     width |-> rect.width, height |-> rect.height, fill |-> rect.bg,
     font |-> g.font, text |-> ""]

TextOp(call, g, rect, font, text) ==
    [op |-> "text", call |-> call, x |-> rect.x + (rect.width \div 2),
     y |-> rect.y - (rect.height \div 2) - (font.pad * Unit),
     width |-> 0, height |-> 0, fill |-> rect.col, font |-> g.font, text |-> text]

\* draw_cell without the USE_ORDINALS test
draw_cell_NoOrdinalsTest(call, g, day, rect, font, ordinals) ==
    LET font_name == IF font.bold THEN font.name \o "-Bold" ELSE font.name
        g1 == [font |-> [name |-> font_name, size |-> font.size], fill |-> g.fill]
        g2 == [g1 EXCEPT !.fill = rect.col]
    IN IF ~Truthy(day)
       THEN [gstate |-> g2, ops |-> <<RectOp(call, g1, rect)>>, err |-> ""]
       ELSE [gstate |-> g2,
             ops |-> <<RectOp(call, g1, rect),
                       TextOp(call, g2, rect, font, LabelText(day))>>,
             err |-> ""]

\* draw_cell without the early return for a falsy label
draw_cell_NoEarlyReturn(call, g, day, rect, font, ordinals) ==
    LET font_name == IF font.bold THEN font.name \o "-Bold" ELSE font.name
        g1 == [font |-> [name |-> font_name, size |-> font.size], fill |-> g.fill]
        g2 == [g1 EXCEPT !.fill = rect.col]
    IN IF ordinals
       THEN [gstate |-> g2, ops |-> <<RectOp(call, g1, rect)>>,
             err |-> "NotImplementedError"]
       ELSE [gstate |-> g2,
             ops |-> <<RectOp(call, g1, rect),
                       TextOp(call, g2, rect, font, LabelText(day))>>,
             err |-> ""]

\* the whole of draw_cell as call number `call` on a canvas in graphics state g:
\* [gstate, ops, err] = the state it leaves, the primitives it issued, the
\* exception it raised ("" when it returned)
draw_cell(call, g, day, rect, font, ordinals) ==
    LET font_name == IF font.bold THEN font.name \o "-Bold" ELSE font.name
        g1 == [font |-> [name |-> font_name, size |-> font.size], fill |-> g.fill]
        g2 == [g1 EXCEPT !.fill = rect.col]
    IN IF ~Truthy(day)
       THEN [gstate |-> g2, ops |-> <<RectOp(call, g1, rect)>>, err |-> ""]
       ELSE IF ordinals
       THEN [gstate |-> g2, ops |-> <<RectOp(call, g1, rect)>>,
             err |-> "NotImplementedError"]
       ELSE [gstate |-> g2,
             ops |-> <<RectOp(call, g1, rect),
                       TextOp(call, g2, rect, font, LabelText(day))>>,
             err |-> ""]

(***************************************************************************)
(* Inputs                                                                  *)
(***************************************************************************)
HalfHue == Num(1, 2)
DegHue == Num(180, 1)

\* hues inside [0,1], inside (1,360] and beyond, met in turn by the months
HueCycle == <<Num(0, 1), Num(1, 2), Num(1, 1), Num(180, 1), Num(360, 1), Num(720, 1)>>

ConstSeq(n, e) == [k \in 1..n |-> e]
CycleSeq(n) == [k \in 1..n |-> HueCycle[((k - 1) % Len(HueCycle)) + 1]]
NoneAt(j) == [k \in 1..NumMonths |-> IF k = j THEN None ELSE DegHue]

\* np.linspace(120, 330, 12), the hues of the script's own entry point
Linspace == [k \in 1..NumMonths |-> Num((120 * 11) + (210 * (k - 1)), 11)]

HueInputs ==
    {PyScalar(e) : e \in {Num(0, 1), HalfHue, DegHue}}
      \cup {PySeq("list", ConstSeq(n, e)) : n \in 0..MaxHueLen, e \in {HalfHue, DegHue}}
      \cup {PySeq("list", CycleSeq(NumMonths))}
      \cup {PySeq("list", NoneAt(j)) : j \in {1, 6, NumMonths}}
      \cup {PySeq("ndarray", ConstSeq(1, e)) : e \in {HalfHue, DegHue}}
      \cup {PySeq("ndarray", Linspace)}

PageSizes == {<<130, 90>>, <<90, 130>>}

Years == FirstYear..MaxYear

(***************************************************************************)
(* State                                                                   *)
(***************************************************************************)
\* a fresh Canvas: default font and a black fill, nothing saved
InitGState ==
    [font |-> [name |-> "Helvetica", size |-> 12 * Unit],
     fill |-> hls_to_rgb(PyScalar(Num(0, 1)), 0, 0)]

Init ==
    /\ year_date \in Years
    /\ size \in PageSizes
    /\ hue \in HueInputs
    /\ first_weekday \in {MONDAY, SUNDAY}
    /\ USE_ORDINALS \in BOOLEAN
    /\ pc = "resolve"
    /\ month = 0
    /\ month_hue = PyScalar(None)
    /\ month_colours = generate_colours(PyScalar(None))
    /\ error = ""
    /\ created = <<>>
    /\ saved = <<>>
    /\ cal = <<>>
    /\ phase = "none"
    /\ row = 0
    /\ col = 0
    /\ lastRow = 0
    /\ gstate = InitGState
    /\ stack = <<>>
    /\ calls = <<>>
    /\ ops = <<>>

inputs == <<year_date, size, hue, first_weekday, USE_ORDINALS>>
page == <<cal, phase, row, col, lastRow, gstate, stack, calls, ops>>

\* the rectangle add_calendar_page lays the grid out in (after line 113)
Inset == InsetRect(PageRect(size))

scale_factor == ScaleFactor(PageRect(size))

\* the arguments of the cell_cb call at the current loop position
CellLabel ==
    CASE phase = "title" ->
            StrLabel(month_name[month + 1] \o " " \o str(year_date))
      [] phase = "header" -> StrLabel(DAY_NAMES[col + 1])
      [] phase = "weeks" -> IntLabel(cal[row + 1][col + 1])
      [] phase = "blank" -> StrLabel("")

CellGeom ==
    CASE phase = "title" -> TitleGeom(Inset, month_colours)
      [] phase = "header" -> HeaderGeom(Inset, month_colours, col)
      [] phase = "weeks" -> DayGeom(Inset, month_colours, row, col)
      [] phase = "blank" -> DayGeom(Inset, month_colours, row, col)

CellFont ==
    CASE phase = "title" -> monthFont(scale_factor)
      [] phase = "header" -> dayFont(scale_factor)
      [] phase = "weeks" -> mainFont(scale_factor)
      [] phase = "blank" -> mainFont(scale_factor)

\* lines 146, 166-167, 184-188: the loop position after the current cell, and
\* lastRow; phase "return" is line 206
NextCell ==
    CASE phase = "title" ->
            [phase |-> "header", row |-> row, col |-> 0, lastRow |-> lastRow]
      [] phase = "header" /\ col < 6 ->
            [phase |-> "header", row |-> row, col |-> col + 1, lastRow |-> lastRow]
      [] phase = "header" /\ col = 6 ->
            [phase |-> "weeks", row |-> 0, col |-> 0, lastRow |-> 0]
      [] phase = "weeks" /\ col < 6 ->
            [phase |-> "weeks", row |-> row, col |-> col + 1, lastRow |-> lastRow]
      [] phase = "weeks" /\ col = 6 /\ row + 1 < Len(cal) ->
            [phase |-> "weeks", row |-> row + 1, col |-> 0, lastRow |-> row]
      [] phase = "weeks" /\ col = 6 /\ row + 1 = Len(cal) ->
            IF row < 5
            THEN [phase |-> "blank", row |-> 5, col |-> 0, lastRow |-> row]
            ELSE [phase |-> "return", row |-> row, col |-> col, lastRow |-> row]
      [] phase = "blank" /\ col < 6 ->
            [phase |-> "blank", row |-> row, col |-> col + 1, lastRow |-> lastRow]
      [] phase = "blank" /\ col = 6 ->
            [phase |-> "return", row |-> row, col |-> col, lastRow |-> lastRow]

(***************************************************************************)
(* Actions                                                                 *)
(***************************************************************************)
\* generate_pdf lines 289-299, no exception
HueResolved ==
    /\ pc = "resolve"
    /\ MonthHue(hue, month).err = ""
    /\ month_hue' = MonthHue(hue, month).val
    /\ month_colours' = generate_colours(MonthHue(hue, month).val)
    /\ pc' = "canvas"
    /\ UNCHANGED <<inputs, month, error, created, saved, page>>

\* generate_pdf lines 289-297 raise
HueError ==
    /\ pc = "resolve"
    /\ MonthHue(hue, month).err # ""
    /\ error' = MonthHue(hue, month).err
    /\ pc' = OnException(month).pc
    /\ month' = OnException(month).month
    /\ UNCHANGED <<inputs, month_hue, month_colours, created, saved, page>>

\* generate_pdf lines 301-304 and add_calendar_page lines 96-121
NewCanvas ==
    /\ pc = "canvas"
    /\ created' = Append(created, FileName(year_date, month))
    /\ cal' = MonthCalendar(year_date, month + 1, first_weekday)
    /\ gstate' = InitGState
    /\ stack' = <<>>
    /\ calls' = <<>>
    /\ ops' = <<>>
    /\ phase' = "title"
    /\ row' = 0
    /\ col' = 0
    /\ lastRow' = 0
    /\ pc' = "save"
    /\ UNCHANGED <<inputs, month, month_hue, month_colours, error, saved>>

\* save_state line 74: entering a with-block
SaveState ==
    /\ pc = "save"
    /\ stack' = Append(stack, gstate)
    /\ pc' = "cell"
    /\ UNCHANGED <<inputs, month, month_hue, month_colours, error, created, saved,
                   cal, phase, row, col, lastRow, gstate, calls, ops>>

Drawn == draw_cell(Len(calls) + 1, gstate, CellLabel, CellGeom, CellFont, USE_ORDINALS)

ThisCall == [phase |-> phase, row |-> row, col |-> col, label |-> CellLabel,
             rect |-> CellGeom, font |-> CellFont]

\* the cell_cb call returns: control reaches line 76
CellReturns ==
    /\ pc = "cell"
    /\ Drawn.err = ""
    /\ calls' = Append(calls, ThisCall)
    /\ ops' = ops \o Drawn.ops
    /\ gstate' = Drawn.gstate
    /\ pc' = "restore"
    /\ UNCHANGED <<inputs, month, month_hue, month_colours, error, created, saved,
                   cal, phase, row, col, lastRow, stack>>

\* the cell_cb call raises: the exception is thrown into save_state at its
\* yield, where nothing catches it, and leaves add_calendar_page and
\* generate_pdf
CellRaises ==
    /\ pc = "cell"
    /\ Drawn.err # ""
    /\ calls' = Append(calls, ThisCall)
    /\ ops' = ops \o Drawn.ops
    /\ gstate' = Drawn.gstate
    /\ error' = Drawn.err
    /\ pc' = OnException(month).pc
    /\ month' = OnException(month).month
    /\ UNCHANGED <<inputs, month_hue, month_colours, created, saved,
                   cal, phase, row, col, lastRow, stack>>

\* save_state line 76: leaving a with-block, then the loops step
RestoreState ==
    /\ pc = "restore"
    /\ gstate' = stack[Len(stack)]
    /\ stack' = SubSeq(stack, 1, Len(stack) - 1)
    /\ phase' = NextCell.phase
    /\ row' = NextCell.row
    /\ col' = NextCell.col
    /\ lastRow' = NextCell.lastRow
    /\ pc' = IF NextCell.phase = "return" THEN "finish" ELSE "save"
    /\ UNCHANGED <<inputs, month, month_hue, month_colours, error, created, saved,
                   cal, calls, ops>>

\* line 312 .save(), then the next iteration of line 288
SavePage ==
    /\ pc = "finish"
    /\ saved' = Append(saved, created[Len(created)])
    /\ month' = month + 1
    /\ pc' = IF month + 1 < NumMonths THEN "resolve" ELSE "done"
    /\ UNCHANGED <<inputs, month_hue, month_colours, error, created, page>>

Next ==
    \/ HueResolved
    \/ HueError
    \/ NewCanvas
    \/ SaveState
    \/ CellReturns
    \/ CellRaises
    \/ RestoreState
    \/ SavePage

Spec == Init /\ [][Next]_vars

(***************************************************************************)
(* Vocabulary of the properties                                            *)
(***************************************************************************)
Count(S) == Cardinality(S)

CallsAt(ph, r, c) ==
    {k \in DOMAIN calls : calls[k].phase \in ph /\ calls[k].row = r /\ calls[k].col = c}

OpsOf(k, kind) == {j \in DOMAIN ops : ops[j].call = k /\ ops[j].op = kind}

RectsDrawn == {j \in DOMAIN ops : ops[j].op = "rect"}

SeqRange(q) == {q[k] : k \in DOMAIN q}

\* the page of the current canvas has been laid out completely
PageComplete == pc = "finish"

\* rationals: a = b, a <= b
RatEq(a, b) == a.n * b.d = b.n * a.d
RatLe(a, b) == a.n * b.d <= b.n * a.d
One == Num(1, 1)
Zero == Num(0, 1)
FullTurn == Num(360, 1)

IsSized == hue.ty \in {"list", "ndarray"}
AllNumbers == \A k \in DOMAIN hue.elems : hue.elems[k].ty = "num"

\* month_hue and month_colours hold this month's values
HueIsResolved == pc \in {"canvas", "save", "cell", "restore", "finish"}

(***************************************************************************)
(* C1: for every month matrix (4, 5 or 6 week rows) a complete page has    *)
(* had the cell callback invoked for exactly 1 title cell, 7 header cells  *)
(* and exactly one cell at each of the 42 positions of week rows 0..5, the *)
(* positions without a week being drawn with a blank label.                *)
(***************************************************************************)
C1_EveryRowPainted ==
    PageComplete =>
        /\ Count({k \in DOMAIN calls : calls[k].phase = "title"}) = 1
        /\ \A c \in 0..6 : Count(CallsAt({"header"}, 0, c)) = 1
        /\ \A r \in 0..5 : \A c \in 0..6 :
              /\ Count(CallsAt({"weeks", "blank"}, r, c)) = 1
              /\ r >= Len(cal) =>
                    \A k \in CallsAt({"weeks", "blank"}, r, c) : ~Truthy(calls[k].label)

(***************************************************************************)
(* C2: every saveState is matched by a restoreState on every exit path of  *)
(* the cell callback (return, early return for a blank label, exception):  *)
(* the save depth is never above 1, it is 0 whenever control is outside a  *)
(* with-block, and each cell starts from the canvas's initial font and     *)
(* fill colour.                                                            *)
(***************************************************************************)
C2_SaveRestoreBalanced ==
    /\ Len(stack) <= 1
    /\ pc \notin {"cell", "restore"} => Len(stack) = 0
    /\ pc = "save" => gstate = InitGState

(***************************************************************************)
(* C3: with a single shared hue (a scalar, or a one-element sequence)      *)
(* every month gets that one hue; with 12 hues month m gets element m; in  *)
(* both cases the value normalised and passed to generate_colours is a     *)
(* single number and generation proceeds without error.                    *)
(***************************************************************************)
C3_HueResolution ==
    (AllNumbers /\ ~USE_ORDINALS /\ (hue.ty = "scalar" \/ Len(hue.elems) \in {1, NumMonths})) =>
        /\ error = ""
        /\ pc # "raised"
        /\ HueIsResolved =>
              /\ month_hue.ty = "scalar"
              /\ month_hue.elems[1].ty = "num"
              /\ month_hue =
                    NormaliseHue(PyScalar(IF Len(hue.elems) = NumMonths
                                          THEN hue.elems[month + 1]
                                          ELSE hue.elems[1])).val

(***************************************************************************)
(* C4: a hue sequence whose length is neither 1 nor 12 ends the run in     *)
(* the 'expect either 12 or 1 hues' ValueError in the first iteration,     *)
(* with no Canvas created and no document saved.                           *)
(***************************************************************************)
BadHueCount == IsSized /\ Len(hue.elems) \notin {1, NumMonths}

C4_BadHueCountIsFatal ==
    BadHueCount =>
        /\ created = <<>>
        /\ saved = <<>>
        /\ month = 0
        /\ pc \in {"resolve", "raised"}
        /\ pc = "raised" => error = "ValueError"
        /\ pc = "resolve" => ENABLED HueError /\ ~ENABLED HueResolved

C4_Witness == BadHueCount /\ pc = "raised" /\ error = "ValueError" /\ Len(hue.elems) > NumMonths

(***************************************************************************)
(* C5 as claimed: when the run has ended, every month other than a month   *)
(* that failed has its document saved.  The failures taken are the two the *)
(* program raises on purpose: the hue-count ValueError and the cell        *)
(* callback's NotImplementedError.                                         *)
(***************************************************************************)
C5_MonthsIndependent ==
    (pc \in {"raised", "done"} /\ error \in {"", "ValueError", "NotImplementedError"}) =>
        \A m \in 0..(NumMonths - 1) :
            (error = "" \/ m # month) => FileName(year_date, m) \in SeqRange(saved)

(***************************************************************************)
(* C5 amended: a failure in month m leaves generate_pdf at once and ends   *)
(* the run: the documents saved are exactly those of the months before m,  *)
(* in order, and no later month is generated.                              *)
(***************************************************************************)
C5_FailureEndsRun ==
    error # "" =>
        /\ pc = "raised"
        /\ ~ENABLED Next
        /\ saved = [k \in 1..month |-> FileName(year_date, k - 1)]
        /\ Len(created) \in {month, month + 1}

C5_Witness ==
    /\ error # ""
    /\ month > 0
    /\ month < NumMonths - 1
    /\ Len(saved) = month

(***************************************************************************)
(* C6: with USE_ORDINALS enabled draw_cell raises NotImplementedError for  *)
(* every non-empty label without drawing text, so generate_pdf fails in    *)
(* the title cell of the first month and saves nothing; with it disabled   *)
(* the error is never raised.                                              *)
(***************************************************************************)
SomeLabels ==
    {IntLabel(d) : d \in 0..31} \cup {StrLabel(t) : t \in {"", "M", "January 2021"}}

C6_OrdinalsFailFast ==
    /\ USE_ORDINALS =>
          /\ saved = <<>>
          /\ month = 0
          /\ OpsOf(1, "text") = {} /\ Len(calls) <= 1
          /\ pc \notin {"restore", "finish", "done"}
          /\ (pc = "raised" /\ calls # <<>>) =>
                /\ error = "NotImplementedError"
                /\ calls[1].phase = "title"
                /\ Truthy(calls[1].label)
    /\ ~USE_ORDINALS => error # "NotImplementedError"
    /\ pc = "cell" =>
          \A l \in SomeLabels :
             LET on == draw_cell(1, gstate, l, CellGeom, CellFont, TRUE)
                 off == draw_cell(1, gstate, l, CellGeom, CellFont, FALSE)
             IN /\ Truthy(l) =>
                      /\ on.err = "NotImplementedError"
                      /\ \A j \in DOMAIN on.ops : on.ops[j].op # "text"
                /\ off.err = ""

C6_Witness ==
    /\ USE_ORDINALS
    /\ pc = "raised"
    /\ error = "NotImplementedError"
    /\ Len(calls) = 1
    /\ Len(created) = 1

(***************************************************************************)
(* C7 as claimed: every call of draw_cell has, when it ends, drawn the     *)
(* filled rectangle once,                                                  *)
(* in the cell's background colour, and draws text (the label, in the      *)
(* foreground colour, once) if and only if the label is non-empty.         *)
(***************************************************************************)
CellDrawnRight(k, textWanted) ==
    /\ Count(OpsOf(k, "rect")) = 1
    /\ \A j \in OpsOf(k, "rect") :
          /\ ops[j].fill = calls[k].rect.bg
          /\ \A i \in OpsOf(k, "text") : j < i
    /\ Count(OpsOf(k, "text")) = (IF textWanted THEN 1 ELSE 0)
    /\ \A j \in OpsOf(k, "text") :
          /\ ops[j].fill = calls[k].rect.col
          /\ ops[j].text = (IF calls[k].label.ty = "int"
                            THEN str(calls[k].label.i) ELSE calls[k].label.s)

\* control has just left draw_cell (by return or by exception) for call Len(calls)
CellJustDrawn == pc \in {"restore", "raised"} /\ calls # <<>>

C7_TextIffLabel ==
    CellJustDrawn => CellDrawnRight(Len(calls), Truthy(calls[Len(calls)].label))

(***************************************************************************)
(* C7 amended: every call of draw_cell has, when it ends, drawn the filled *)
(* rectangle once in the background colour, and has drawn the text if and  *)
(* only if the label is non-empty and USE_ORDINALS is disabled.            *)
(***************************************************************************)
C7_TextIffLabelAndNoOrdinals ==
    CellJustDrawn =>
        CellDrawnRight(Len(calls), Truthy(calls[Len(calls)].label) /\ ~USE_ORDINALS)

C7_Witness ==
    /\ PageComplete
    /\ \E k \in DOMAIN calls :
          calls[k].phase = "weeks" /\ calls[k].label = IntLabel(0) /\ OpsOf(k, "text") = {}
    /\ \E k \in DOMAIN calls : calls[k].phase = "blank" /\ OpsOf(k, "text") = {}
    /\ \E k \in DOMAIN calls :
          /\ calls[k].label = IntLabel(31)
          /\ \E j \in OpsOf(k, "text") : ops[j].text = "31"

(***************************************************************************)
(* C8: a hue h in [0,1] reaches generate_colours unchanged, a hue in       *)
(* (1,360] reaches it as h/360, which lies in [0,1]; a hue in degrees d    *)
(* gives the same normalised hue and palette as the fraction d/360.        *)
(***************************************************************************)
SourceHue == IF Len(hue.elems) = NumMonths THEN hue.elems[month + 1] ELSE hue.elems[1]

C8_HueNormalised ==
    (HueIsResolved /\ SourceHue.ty = "num") =>
        LET h == SourceHue
            r == month_hue.elems[1]
            frac == Num(h.n, h.d * 360)
        IN /\ Len(month_hue.elems) = 1
           /\ (RatLe(Zero, h) /\ RatLe(h, One)) => r = h
           /\ (~RatLe(h, One) /\ RatLe(h, FullTurn)) =>
                 /\ RatEq(r, [n |-> h.n, d |-> h.d * 360])
                 /\ RatLe(Zero, r) /\ RatLe(r, One)
                 /\ NormaliseHue(PyScalar(frac)).val = PyScalar(r)
                 /\ month_hue.ty = "scalar" =>
                       month_colours = generate_colours(NormaliseHue(PyScalar(frac)).val)
           /\ month_colours = generate_colours(month_hue)

C8_Witness ==
    /\ HueIsResolved
    /\ SourceHue = DegHue
    /\ month_hue = PyScalar(HalfHue)

C8_WitnessUnchanged ==
    /\ HueIsResolved
    /\ SourceHue = One
    /\ month_hue = PyScalar(One)

(***************************************************************************)
(* C9: a run without failure produces exactly the 12 documents             *)
(* cal-<year>-<m>.pdf, m = 1..12, in ascending order; each canvas is saved *)
(* once, before the next is created, so at most one document is unsaved at *)
(* any time, and the run ends after month 12.                              *)
(***************************************************************************)
ExpectedNames(n) == [k \in 1..n |-> "cal-" \o str(year_date) \o "-" \o str(k) \o ".pdf"]

C9_TwelveDocumentsInOrder ==
    /\ saved = ExpectedNames(Len(saved))
    /\ created = ExpectedNames(Len(created))
    /\ Len(created) - Len(saved) \in {0, 1}
    /\ Len(saved) = month
    /\ pc \in {"resolve", "canvas", "done"} => Len(created) = Len(saved)
    /\ pc = "done" =>
          /\ error = ""
          /\ month = NumMonths
          /\ saved = ExpectedNames(NumMonths)
          /\ created = saved
          /\ ~ENABLED Next
    /\ (error = "" /\ pc # "done") => month < NumMonths
    /\ (error = "" /\ pc \in {"resolve", "canvas", "finish"}) => ENABLED Next

C9_Witness == pc = "done" /\ Len(saved) = NumMonths /\ error = ""

(***************************************************************************)
(* C10: in cell units from the bottom-left corner of the inset rectangle   *)
(* the title is painted over [0,7] x [7,8], the header of column c over    *)
(* [c,c+1] x [6,7], the day cell of week row r, column c over              *)
(* [c,c+1] x [5-r,6-r]; so every painted rectangle lies inside the inset   *)
(* rectangle, no two overlap in their interiors, weeks run top to bottom,  *)
(* and header and day cells are all of one size.                           *)
(***************************************************************************)
\* the rectangle [c0,c1] x [r0,r1] in cell units of the inset rectangle ins
Painted(ins, o, c0, c1, r0, r1) ==
    LET w == ins.width \div 7
        h == ins.height \div 8
    IN /\ w * 7 = ins.width /\ h * 8 = ins.height
       /\ o.x = ins.x + (c0 * w)
       /\ o.x + o.width = ins.x + (c1 * w)
       /\ o.y = ins.y + (r0 * h)
       /\ o.y + o.height = ins.y + (r1 * h)

Inside(ins, o) ==
    /\ o.x >= ins.x /\ o.x + o.width <= ins.x + ins.width
    /\ o.y >= ins.y /\ o.y + o.height <= ins.y + ins.height

InteriorsDisjoint(a, b) ==
    \/ a.x + a.width <= b.x
    \/ b.x + b.width <= a.x
    \/ a.y + a.height <= b.y
    \/ b.y + b.height <= a.y

\* the page is as far as it will get: laid out completely, or abandoned
PageEnded == pc \in {"finish", "raised"}

C10_GridGeometry ==
    PageEnded =>
        LET ins == Inset
        IN /\ \A j \in RectsDrawn :
                 LET k == calls[ops[j].call]
                     o == ops[j]
                 IN /\ k.phase = "title" => Painted(ins, o, 0, 7, 7, 8)
                    /\ k.phase = "header" => Painted(ins, o, k.col, k.col + 1, 6, 7)
                    /\ k.phase \in {"weeks", "blank"} =>
                          Painted(ins, o, k.col, k.col + 1, 5 - k.row, 6 - k.row)
                    /\ k.phase # "title" =>
                          o.width * 7 = ins.width /\ o.height * 8 = ins.height
                    /\ Inside(ins, o)
           /\ \A a, b \in RectsDrawn :
                 LET ka == calls[ops[a].call]
                     kb == calls[ops[b].call]
                 IN /\ a # b => InteriorsDisjoint(ops[a], ops[b])
                    /\ (ka.phase = "weeks" /\ kb.phase = "weeks" /\ Truthy(ka.label)
                          /\ Truthy(kb.label) /\ ka.label.i < kb.label.i) =>
                             \/ ops[a].y > ops[b].y
                             \/ ops[a].y = ops[b].y /\ ops[a].x < ops[b].x

C10_Witness ==
    /\ PageComplete
    /\ Len(cal) = 6
    /\ Count(RectsDrawn) = 50
    /\ size[1] < size[2]

====
